---------------------------- MODULE Spec2Model ----------------------------
(***************************************************************************)
(* Buffon's Needle simulation (main.py, ui_classes.py).                    *)
(*                                                                         *)
(* The model covers the needle geometry (TheoreticalNeedle and its hit     *)
(* property), the rate controller (get_rates), the input box               *)
(* (InputBox.handle_event) and the driving loop of main().  Drawing, the   *)
(* log file, and the displayed values pi and fps change no state that the  *)
(* loop reads back and are left out.  Needle.needles is kept as its        *)
(* length.                                                                 *)
(*                                                                         *)
(* Coordinates are rationals with the fixed denominator CoordDen, so that  *)
(* length / 2 * cos(angle) is exact for the angles of Angles.              *)
(***************************************************************************)
EXTENDS Integers, Sequences, FiniteSets, TLC

VARIABLES
    needle_length,    \* module attribute, after the startup correction
    hits,             \* main(): needles that crossed a column line
    drops,            \* main(): needles dropped
    target_drops,     \* main(): needles requested so far
    drops_left,       \* main(): target_drops - drops, as of line 330
    target_fps,       \* main(): ceiling handed to clock.tick
    drops_per_frame,  \* main(): batch size of the for loop
    reset_rates,      \* main(): whether the next frame calls get_rates
    needles,          \* len(Needle.needles)
    active,           \* drops_input.active
    text,             \* drops_input.text, a sequence of characters
    pc,               \* position of main(): "events", "drop", "render",
                      \* "crashed", "exited"; "input"/"called" for the
                      \* specifications of the pure functions
    loop_count,       \* iterations done by the for loop of line 342 in
                      \* the frame under way
    new_needle,       \* the needle built last (point1, point2, columns)
    hit_result        \* the value its hit property returned last

vars == <<needle_length, hits, drops, target_drops, drops_left, target_fps,
          drops_per_frame, reset_rates, needles, active, text, pc,
          loop_count, new_needle, hit_result>>

loop_vars == <<hits, drops, target_drops, drops_left, target_fps,
               drops_per_frame, reset_rates, needles, loop_count>>
box_vars == <<active, text>>
needle_vars == <<new_needle, hit_result>>

----------------------------------------------------------------------------
(* Program constants (main.py).                                            *)

column_space == 100
column_count == 8
configured_needle_length == 75
window_height == 400
default_target_fps == 100

(* Bounds of the model.                                                    *)

MaxTarget == 3         \* |target_drops| the user is let reach
MaxBulkTarget == 108   \* the same, where the user only adds large counts
MaxText == 2           \* characters the user is let type into the box
MaxDropsLeft == 1000   \* largest argument tried on get_rates alone
MaxCoord == 3          \* largest coordinate tried on hit alone

Min(a, b) == IF a < b THEN a ELSE b
Max(a, b) == IF a > b THEN a ELSE b

----------------------------------------------------------------------------
(* Startup: lines 116-121 clamp needle_length to column_space.             *)

CorrectedLength(length) ==
    IF length > column_space THEN column_space ELSE length

(* Values of needle_length a user of the module may configure.             *)
NeedleLengths == {configured_needle_length, column_space, column_space + 20}

----------------------------------------------------------------------------
(* TheoreticalNeedle.                                                      *)

(* Denominator of every stored coordinate: 2 for length / 2, 5 for the     *)
(* cosines and sines of Angles.                                            *)
CoordDen == 2 * 5

(* Outcomes of random.uniform(0, 2 * math.pi) tried, as <<5 cos, 5 sin>>:  *)
(* 0, pi/2, and the 3-4-5 angle.  At the float nearest pi/2 the cosine is  *)
(* 6e-17 and center.x +- length / 2 * cos rounds to center.x for every     *)
(* center.x >= 32, so point1.x = point2.x there as in the exact            *)
(* arithmetic used here.                                                   *)
Angles == {<<5, 0>>, <<0, 5>>, <<4, 3>>}

(* Outcomes of random.uniform(0, board_width) and (0, board_height) tried. *)
CenterXs == {column_space, column_space + column_space \div 2}
CenterYs == {window_height \div 2}

(* columns_x_values of main(), lines 288-289, over CoordDen.               *)
columns_x_values ==
    [n \in 1..(column_count + 1) |-> CoordDen * column_space * (n - 1)]

Cords(x, y) == [x |-> x, y |-> y]

(* As TheoreticalNeedle below, with the endpoints a whole length from the  *)
(* center (length in place of length / 2).                                 *)
TheoreticalNeedle_full_length(cx, cy, angle, length, columns) ==
    [column_values |-> columns,
     point1 |-> Cords(CoordDen * cx + 2 * length * angle[1],
                      CoordDen * cy + 2 * length * angle[2]),
     point2 |-> Cords(CoordDen * cx - 2 * length * angle[1],
                      CoordDen * cy - 2 * length * angle[2])]

(* TheoreticalNeedle.__init__, lines 132-146.                              *)
TheoreticalNeedle(cx, cy, angle, length, columns) ==
    [column_values |-> columns,
     point1 |-> Cords(CoordDen * cx + length * angle[1],
                      CoordDen * cy + length * angle[2]),
     point2 |-> Cords(CoordDen * cx - length * angle[1],
                      CoordDen * cy - length * angle[2])]

NoNeedle == [column_values |-> <<>>, point1 |-> Cords(0, 0),
             point2 |-> Cords(0, 0)]

(* Whether column_value passes the test of lines 152-153.                  *)
Between(needle, column_value) ==
    \/ needle.point1.x <= column_value /\ column_value <= needle.point2.x
    \/ needle.point1.x >= column_value /\ column_value >= needle.point2.x

(* Values of the hit property: None, a Cords whose y is the rational       *)
(* y_num / y_den, or a raised ZeroDivisionError.                           *)
HitNone == [kind |-> "None", x |-> 0, y_num |-> 0, y_den |-> 1]
HitRaise == [kind |-> "ZeroDivisionError", x |-> 0, y_num |-> 0, y_den |-> 1]
HitCords(x, y_num, y_den) ==
    [kind |-> "Cords", x |-> x, y_num |-> y_num, y_den |-> y_den]

(* Lines 158-163 for the column the loop stopped at:                       *)
(* slope = dy / dx, y_int = point1.y - slope * point1.x,                   *)
(* y = slope * column_value + y_int = (dy * column_value                   *)
(*     + point1.y * dx - dy * point1.x) / dx.                              *)
Intercept(needle, column_value) ==
    LET dx == needle.point2.x - needle.point1.x
        dy == needle.point2.y - needle.point1.y
    IN  IF dx = 0
        THEN HitRaise
        ELSE HitCords(column_value,
                      dy * column_value + needle.point1.y * dx
                          - dy * needle.point1.x,
                      dx)

(* TheoreticalNeedle.hit, lines 148-163: the for/else over column_values   *)
(* breaks at the first column that passes the test.                        *)
hit(needle) ==
    LET cols == needle.column_values
        matching == {k \in 1..Len(cols) : Between(needle, cols[k])}
    IN  IF matching = {}
        THEN HitNone
        ELSE LET first == CHOOSE k \in matching :
                              \A j \in matching : k <= j
             IN  Intercept(needle, cols[first])

----------------------------------------------------------------------------
(* get_rates.                                                              *)

(* A frame-rate ceiling: kind "int" is the integer v; kind "pow" is the    *)
(* finite integer int(100 ** e + 9) for an exponent e > 0, recorded by     *)
(* v = floor(log10(100 ** e)) = floor(2 e), so that                        *)
(* 10 ^ v + 9 <= value < 10 ^ (v + 1) + 9.                                 *)
FpsInt(v) == [kind |-> "int", v |-> v]
FpsPow(v) == [kind |-> "pow", v |-> v]

(* 2 * (0.75 * n - 100 / n) = (3 n^2 - 400) / (2 n), for n # 0.            *)
TwiceExpNum(n) == IF n > 0 THEN 3 * n * n - 400 ELSE 400 - 3 * n * n
TwiceExpDen(n) == IF n > 0 THEN 2 * n ELSE -2 * n

(* float pow raises OverflowError when 100 ** e exceeds the largest        *)
(* double, 1.797e308 = 10 ^ 308.25.                                        *)
Overflows(n) == 100 * TwiceExpNum(n) > 30825 * TwiceExpDen(n)

(* As TargetFps below, with the two except branches exchanged.             *)
TargetFps_swapped_handlers(n) ==
    IF n = 0 THEN FpsInt(0)
    ELSE IF Overflows(n) THEN FpsInt(default_target_fps)
    ELSE IF TwiceExpNum(n) < 0 THEN FpsInt(9)
    ELSE FpsPow(TwiceExpNum(n) \div TwiceExpDen(n))

(* Lines 236-243.                                                          *)
TargetFps(n) ==
    IF n = 0 THEN FpsInt(default_target_fps)      \* ZeroDivisionError
    ELSE IF Overflows(n) THEN FpsInt(0)           \* OverflowError
    ELSE IF TwiceExpNum(n) < 0 THEN FpsInt(9)     \* 0 < 100 ** e < 1
    ELSE FpsPow(TwiceExpNum(n) \div TwiceExpDen(n))

(* As DropsPerFrame below, with < 100 in place of <= 100.                  *)
DropsPerFrame_strict(n) ==
    IF n = 0 THEN 0
    ELSE IF n < 100 THEN 1
    ELSE n \div 10

(* Lines 228-234; int(drops_left / 10) truncates a quotient that is        *)
(* positive on this branch.                                                *)
DropsPerFrame(n) ==
    IF n = 0 THEN 0
    ELSE IF n <= 100 THEN 1
    ELSE n \div 10

get_rates(n) ==
    [drops_per_frame |-> DropsPerFrame(n), target_fps |-> TargetFps(n)]

----------------------------------------------------------------------------
(* InputBox (ui_classes.py) and int().                                     *)

Digits == <<"0", "1", "2", "3", "4", "5", "6", "7", "8", "9">>
IsDigit(c) == \E k \in 1..10 : Digits[k] = c
DigitValue(c) == (CHOOSE k \in 1..10 : Digits[k] = c) - 1

RECURSIVE DigitsValue(_)
DigitsValue(s) ==
    IF s = <<>> THEN 0
    ELSE 10 * DigitsValue(SubSeq(s, 1, Len(s) - 1)) + DigitValue(s[Len(s)])

AllDigits(s) == Len(s) > 0 /\ \A k \in 1..Len(s) : IsDigit(s[k])

(* int(input_value), line 324: an optional sign and decimal digits;        *)
(* anything else raises ValueError.                                        *)
ParseInt(s) ==
    IF AllDigits(s) THEN [ok |-> TRUE, value |-> DigitsValue(s)]
    ELSE IF Len(s) > 1 /\ s[1] = "-" /\ AllDigits(Tail(s))
         THEN [ok |-> TRUE, value |-> 0 - DigitsValue(Tail(s))]
    ELSE IF Len(s) > 1 /\ s[1] = "+" /\ AllDigits(Tail(s))
         THEN [ok |-> TRUE, value |-> DigitsValue(Tail(s))]
    ELSE [ok |-> FALSE, value |-> 0]

(* Key presses the user makes: the key and its event.unicode.  "ESC" and   *)
(* "DEL" stand for the characters \x1b and \x7f.                           *)
KeyEvents ==
    {[key |-> "K_RETURN", unicode |-> "CR"],
     [key |-> "K_BACKSPACE", unicode |-> "BS"],
     [key |-> "K_ESCAPE", unicode |-> "ESC"],
     [key |-> "K_DELETE", unicode |-> "DEL"],
     [key |-> "K_1", unicode |-> "1"],
     [key |-> "K_MINUS", unicode |-> "-"]}

EscapeEvent == [key |-> "K_ESCAPE", unicode |-> "ESC"]
DeleteEvent == [key |-> "K_DELETE", unicode |-> "DEL"]

(* InputBox.handle_event for a KEYDOWN event, lines 76-83: the new text    *)
(* and the returned value (<<>> with returned FALSE is None).              *)
handle_keydown(box_active, box_text, event) ==
    IF ~box_active
    THEN [text |-> box_text, returned |-> FALSE]
    ELSE IF event.key = "K_RETURN"
    THEN [text |-> box_text, returned |-> TRUE]
    ELSE IF event.key = "K_BACKSPACE"
    THEN [text |-> IF box_text = <<>> THEN <<>>
                   ELSE SubSeq(box_text, 1, Len(box_text) - 1),
          returned |-> FALSE]
    ELSE [text |-> Append(box_text, event.unicode), returned |-> FALSE]

(* InputBox.handle_event for a MOUSEBUTTONDOWN event, lines 69-74.         *)
handle_mousebuttondown(box_active, on_box) ==
    IF on_box THEN ~box_active ELSE FALSE

----------------------------------------------------------------------------
(* main(): the event loop of one frame, lines 301-328.                     *)

(* pygame.QUIT, lines 303-306.                                             *)
HandleQuit ==
    /\ pc = "events"
    /\ pc' = "exited"
    /\ UNCHANGED <<needle_length, loop_vars, box_vars, needle_vars>>

(* target_drops after the Escape branch, lines 309-313; drops_left is the  *)
(* value line 330 computed in the frame before.                            *)
AfterEscape(event) ==
    IF event.key = "K_ESCAPE" /\ drops_left # 0 THEN drops ELSE target_drops

(* As Erases below, with Escape erasing the drops as Delete does.          *)
Erases_on_escape_too(event) ==
    event.key = "K_DELETE" \/ event.key = "K_ESCAPE"

(* Whether the event takes the Delete branch, line 315.                    *)
Erases(event) == event.key = "K_DELETE"

(* A KEYDOWN event, lines 307-328.  limit bounds what the user is let      *)
(* request.                                                                *)
HandleKeyDown(event, limit) ==
    LET erased == Erases(event)
        target1 == IF erased THEN 0 ELSE AfterEscape(event)
        box == handle_keydown(active, text, event)
        submitted == box.returned /\ box.text # <<>>
        parsed == ParseInt(box.text)
        accepted == submitted /\ parsed.ok
        target2 == IF accepted THEN target1 + parsed.value ELSE target1
    IN  /\ pc = "events"
        /\ Len(box.text) <= MaxText
        /\ target2 <= limit /\ 0 - target2 <= limit
        /\ target_drops' = target2
        /\ needles' = IF erased THEN 0 ELSE needles
        /\ hits' = IF erased THEN 0 ELSE hits
        /\ drops' = IF erased THEN 0 ELSE drops
        /\ reset_rates' = IF accepted THEN TRUE ELSE reset_rates
        /\ text' = box.text
        /\ UNCHANGED <<needle_length, drops_left, target_fps, drops_per_frame,
                       loop_count, active, pc, needle_vars>>

(* A MOUSEBUTTONDOWN event: only the input box reacts.                     *)
HandleMouseButtonDown(on_box) ==
    /\ pc = "events"
    /\ active' = handle_mousebuttondown(active, on_box)
    /\ UNCHANGED <<needle_length, loop_vars, text, pc, needle_vars>>

----------------------------------------------------------------------------
(* main(): the rest of the frame, lines 330-356.                           *)

(* As BeginDrops below, with get_rates called in every frame (line 333     *)
(* dropped).                                                               *)
BeginDrops_always_reset ==
    LET left == target_drops - drops
        rates == get_rates(left)
        batch == IF left # 0 /\ left < rates.drops_per_frame
                 THEN left ELSE rates.drops_per_frame
    IN  /\ pc = "events"
        /\ drops_left' = left
        /\ target_fps' = rates.target_fps
        /\ drops_per_frame' = batch
        /\ reset_rates' = (left = 0)
        /\ loop_count' = 0
        /\ pc' = IF left # 0 /\ batch > 0 THEN "drop" ELSE "render"
        /\ UNCHANGED <<needle_length, hits, drops, target_drops, needles,
                       box_vars, needle_vars>>

(* Lines 330-341: drops_left, the rates, reset_rates and the clamp of      *)
(* drops_per_frame; the for loop of line 342 starts at iteration 0.        *)
BeginDrops ==
    LET left == target_drops - drops
        rates == IF reset_rates
                 THEN get_rates(left)
                 ELSE [drops_per_frame |-> drops_per_frame,
                       target_fps |-> target_fps]
        batch == IF left # 0 /\ left < rates.drops_per_frame
                 THEN left ELSE rates.drops_per_frame
    IN  /\ pc = "events"
        /\ drops_left' = left
        /\ target_fps' = rates.target_fps
        /\ drops_per_frame' = batch
        /\ reset_rates' = (left = 0)
        /\ loop_count' = 0
        /\ pc' = IF left # 0 /\ batch > 0 THEN "drop" ELSE "render"
        /\ UNCHANGED <<needle_length, hits, drops, target_drops, needles,
                       box_vars, needle_vars>>

(* One iteration of lines 342-347.  Needle.__init__ evaluates hit for the  *)
(* colour before the needle is appended; a ZeroDivisionError raised there  *)
(* is caught nowhere and ends main().                                      *)
DropNeedle(cx, cy, angle) ==
    LET made == TheoreticalNeedle(cx, cy, angle, needle_length,
                                  columns_x_values)
        result == hit(made)
        raised == result.kind = "ZeroDivisionError"
    IN  /\ pc = "drop"
        /\ new_needle' = made
        /\ hit_result' = result
        /\ needles' = IF raised THEN needles ELSE needles + 1
        /\ drops' = IF raised THEN drops ELSE drops + 1
        /\ hits' = IF raised \/ result.kind = "None" THEN hits ELSE hits + 1
        /\ loop_count' = IF raised THEN loop_count ELSE loop_count + 1
        /\ pc' = IF raised THEN "crashed"
                 ELSE IF loop_count + 1 < drops_per_frame THEN "drop"
                 ELSE "render"
        /\ UNCHANGED <<needle_length, target_drops, drops_left, target_fps,
                       drops_per_frame, reset_rates, box_vars>>

(* Lines 349-356: pi, draw_screen and clock.tick(target_fps); the next     *)
(* frame starts, the iterator of the for loop is gone.                     *)
Render ==
    /\ pc = "render"
    /\ loop_count' = 0
    /\ pc' = "events"
    /\ UNCHANGED <<needle_length, hits, drops, target_drops, drops_left,
                   target_fps, drops_per_frame, reset_rates, needles,
                   box_vars, needle_vars>>

----------------------------------------------------------------------------
(* The program: main() as started by the module, lines 279-286.            *)

Init ==
    /\ needle_length = CorrectedLength(configured_needle_length)
    /\ hits = 0
    /\ drops = 0
    /\ target_drops = 0
    /\ drops_left = 0
    /\ target_fps = FpsInt(default_target_fps)
    /\ drops_per_frame = 0
    /\ reset_rates = TRUE
    /\ needles = 0
    /\ active = FALSE
    /\ text = <<>>
    /\ pc = "events"
    /\ loop_count = 0
    /\ new_needle = NoNeedle
    /\ hit_result = HitNone

UserEvent ==
    \/ HandleQuit
    \/ \E event \in KeyEvents : HandleKeyDown(event, MaxTarget)
    \/ \E on_box \in BOOLEAN : HandleMouseButtonDown(on_box)

FrameStep ==
    \/ BeginDrops
    \/ \E cx \in CenterXs, cy \in CenterYs, angle \in Angles :
           DropNeedle(cx, cy, angle)
    \/ Render

Next == UserEvent \/ FrameStep

Spec == Init /\ [][Next]_vars

(* main() is a `while True` loop: a frame that can go on does.             *)
FairSpec == Spec /\ WF_vars(FrameStep)

----------------------------------------------------------------------------
(* The same program with a user who only enters large counts, by clicks   *)
(* on the box, the 9 key and Return (99 and 9 make 108), and with every    *)
(* needle landing across a column line.                                    *)

BulkKeyEvents ==
    {[key |-> "K_RETURN", unicode |-> "CR"],
     [key |-> "K_9", unicode |-> "9"]}

NextBulk ==
    \/ \E event \in BulkKeyEvents : HandleKeyDown(event, MaxBulkTarget)
    \/ HandleMouseButtonDown(TRUE)
    \/ BeginDrops
    \/ DropNeedle(column_space, window_height \div 2, <<5, 0>>)
    \/ Render

SpecBulk == Init /\ [][NextBulk]_vars

----------------------------------------------------------------------------
(* get_rates on its own: any pending count, then the call.                 *)

InitRates ==
    /\ needle_length = CorrectedLength(configured_needle_length)
    /\ hits = 0
    /\ drops = 0
    /\ target_drops = 0
    /\ drops_left \in 0..MaxDropsLeft
    /\ target_fps = FpsInt(default_target_fps)
    /\ drops_per_frame = 0
    /\ reset_rates = TRUE
    /\ needles = 0
    /\ active = FALSE
    /\ text = <<>>
    /\ pc = "input"
    /\ loop_count = 0
    /\ new_needle = NoNeedle
    /\ hit_result = HitNone

(* drops_per_frame, target_fps = get_rates(drops_left), line 334.          *)
CallGetRates ==
    /\ pc = "input"
    /\ drops_per_frame' = get_rates(drops_left).drops_per_frame
    /\ target_fps' = get_rates(drops_left).target_fps
    /\ pc' = "called"
    /\ UNCHANGED <<needle_length, hits, drops, target_drops, drops_left,
                   reset_rates, needles, loop_count, box_vars, needle_vars>>

SpecRates == InitRates /\ [][CallGetRates]_vars

----------------------------------------------------------------------------
(* hit on its own: any two endpoints and any column sequence.              *)

ColumnSeqs ==
    {<<>>} \cup {<<a>> : a \in 0..MaxCoord}
           \cup {<<a, b>> : a \in 0..MaxCoord, b \in 0..MaxCoord}

InitHit ==
    /\ needle_length = CorrectedLength(configured_needle_length)
    /\ hits = 0
    /\ drops = 0
    /\ target_drops = 0
    /\ drops_left = 0
    /\ target_fps = FpsInt(default_target_fps)
    /\ drops_per_frame = 0
    /\ reset_rates = TRUE
    /\ needles = 0
    /\ active = FALSE
    /\ text = <<>>
    /\ pc = "input"
    /\ loop_count = 0
    /\ new_needle \in
           {[column_values |-> cols,
             point1 |-> Cords(x1, 0), point2 |-> Cords(x2, y2)] :
                cols \in ColumnSeqs, x1 \in 0..MaxCoord, x2 \in 0..MaxCoord,
                y2 \in 0..1}
    /\ hit_result = HitNone

(* new_needle.hit, as line 193 or line 347 evaluates it.                   *)
CallHit ==
    /\ pc = "input"
    /\ hit_result' = hit(new_needle)
    /\ pc' = "called"
    /\ UNCHANGED <<needle_length, loop_vars, box_vars, new_needle>>

SpecHit == InitHit /\ [][CallHit]_vars

----------------------------------------------------------------------------
(* One needle on the board of main(), for each configured needle_length.   *)

(* Outcomes of random.uniform(0, board_width) tried: every quarter of a    *)
(* column, both board edges included.                                      *)
BoardXs == {(column_space \div 4) * k : k \in 0..(4 * column_count)}

(* Outcomes of the angle tried: the four axes and the 3-4-5 angles.        *)
BoardAngles ==
    {<<5, 0>>, <<0, 5>>, <<-5, 0>>, <<0, -5>>,
     <<4, 3>>, <<3, 4>>, <<-4, 3>>, <<3, -4>>}

InitNeedle ==
    /\ needle_length \in {CorrectedLength(length) : length \in NeedleLengths}
    /\ hits = 0
    /\ drops = 0
    /\ target_drops = 0
    /\ drops_left = 0
    /\ target_fps = FpsInt(default_target_fps)
    /\ drops_per_frame = 0
    /\ reset_rates = TRUE
    /\ needles = 0
    /\ active = FALSE
    /\ text = <<>>
    /\ pc = "input"
    /\ loop_count = 0
    /\ new_needle = NoNeedle
    /\ hit_result = HitNone

(* Needle(...) of lines 343-345: the constructor and its use of hit.       *)
MakeNeedle(cx, cy, angle) ==
    LET made == TheoreticalNeedle(cx, cy, angle, needle_length,
                                  columns_x_values)
    IN  /\ pc = "input"
        /\ new_needle' = made
        /\ hit_result' = hit(made)
        /\ pc' = "called"
        /\ UNCHANGED <<needle_length, loop_vars, box_vars>>

NextNeedle ==
    \E cx \in BoardXs, cy \in CenterYs, angle \in BoardAngles :
        MakeNeedle(cx, cy, angle)

SpecNeedle == InitNeedle /\ [][NextNeedle]_vars

----------------------------------------------------------------------------
(* Properties of hit.                                                      *)

(* Positions of the columns inside the closed x-range of the endpoints.    *)
ColumnsInRange(needle) ==
    {k \in 1..Len(needle.column_values) :
        /\ Min(needle.point1.x, needle.point2.x) <= needle.column_values[k]
        /\ needle.column_values[k] <= Max(needle.point1.x, needle.point2.x)}

FirstOf(S) == CHOOSE k \in S : \A j \in S : k <= j

(* C2: hit returns None if and only if no column x-value lies in the       *)
(* closed x-range of the two endpoints, and otherwise returns a point      *)
(* whose x is the first such column in sequence order.                     *)
C2_HitIffColumnInRange ==
    pc = "called" =>
        LET inside == ColumnsInRange(new_needle)
        IN  /\ (hit_result.kind = "None") <=> (inside = {})
            /\ inside # {} =>
                   /\ hit_result.kind = "Cords"
                   /\ hit_result.x = new_needle.column_values[FirstOf(inside)]

(* C3: evaluating hit never raises a division by zero, so the frame that   *)
(* dropped the needle completes.                                           *)
C3_HitNeverRaises ==
    /\ hit_result.kind # "ZeroDivisionError"
    /\ pc # "crashed"

(* C8 as stated: with needle_length <= column_space (equality included)    *)
(* at most one column lies in the closed x-range of the endpoints.         *)
C8_AtMostOneColumn ==
    (pc = "called" /\ needle_length <= column_space) =>
        Cardinality(ColumnsInRange(new_needle)) <= 1

(* C8 amended: with needle_length < column_space at most one column lies   *)
(* in the closed x-range of the endpoints; with needle_length =            *)
(* column_space there are at most two, two only for a needle whose         *)
(* endpoints lie on adjacent column lines, and hit returns the first one   *)
(* in sequence order.                                                      *)
C8_AtMostOneColumnWhenShorter ==
    pc = "called" =>
        LET inside == ColumnsInRange(new_needle)
            width == Max(new_needle.point1.x, new_needle.point2.x)
                         - Min(new_needle.point1.x, new_needle.point2.x)
        IN  /\ needle_length < column_space => Cardinality(inside) <= 1
            /\ Cardinality(inside) <= 2
            /\ Cardinality(inside) = 2 => width = CoordDen * column_space
            /\ hit_result.kind = "Cords" =>
                   hit_result.x = new_needle.column_values[FirstOf(inside)]

(* A needle shorter than column_space that crosses exactly one column.     *)
C8_Witness ==
    /\ pc = "called"
    /\ needle_length < column_space
    /\ Cardinality(ColumnsInRange(new_needle)) = 1
    /\ hit_result.kind = "Cords"
    /\ new_needle.point1.x # new_needle.column_values[
           FirstOf(ColumnsInRange(new_needle))]

----------------------------------------------------------------------------
(* Properties of get_rates.                                                *)

RECURSIVE Pow10(_)
Pow10(k) == IF k <= 0 THEN 1 ELSE 10 * Pow10(k - 1)

NoCap == FpsInt(0)

(* a <= b for two ceilings, the uncapped result 0 read as the greatest.    *)
(* True only when the recorded magnitudes decide it.                       *)
FpsLeq(a, b) ==
    IF b = NoCap THEN TRUE
    ELSE IF a = NoCap THEN FALSE
    ELSE IF a = b THEN TRUE
    ELSE IF a.kind = "int" /\ b.kind = "int" THEN a.v <= b.v
    ELSE IF a.kind = "pow" /\ b.kind = "pow" THEN a.v < b.v
    ELSE IF a.kind = "int" THEN a.v <= Pow10(Min(b.v, 9)) + 9
    ELSE a.v <= 7 /\ Pow10(a.v + 1) + 8 <= b.v

C6_FpsMonotoneFromDefault ==
    pc = "called" =>
        /\ drops_left = 0 =>
               /\ drops_per_frame = 0
               /\ target_fps = FpsInt(default_target_fps)
        /\ \A m \in 0..drops_left :
               FpsLeq(get_rates(m).target_fps, target_fps)
        /\ drops_left > 0 => FpsLeq(FpsInt(default_target_fps), target_fps)

(* C6 amended: get_rates(0) = (0, default_target_fps); over drops_left     *)
(* >= 1 target_fps is non-decreasing (no cap read as greatest) and never   *)
(* below 9, which is its value for 1 <= drops_left <= 11, below            *)
(* default_target_fps.                                                     *)
C6_FpsMonotoneWhilePending ==
    pc = "called" =>
        /\ drops_left = 0 =>
               /\ drops_per_frame = 0
               /\ target_fps = FpsInt(default_target_fps)
        /\ \A m \in 1..drops_left :
               FpsLeq(get_rates(m).target_fps, target_fps)
        /\ drops_left > 0 => FpsLeq(FpsInt(9), target_fps)
        /\ (1 <= drops_left /\ drops_left <= 11) =>
               /\ target_fps = FpsInt(9)
               /\ ~FpsLeq(FpsInt(default_target_fps), target_fps)

(* The first pending count whose ceiling overflows: the cap is removed,    *)
(* one drop fewer still has a finite ceiling.                              *)
C6_Witness ==
    /\ pc = "called"
    /\ drops_left > 1
    /\ target_fps = NoCap
    /\ get_rates(drops_left - 1).target_fps.kind = "pow"

----------------------------------------------------------------------------
(* Properties of the driving loop.                                         *)

(* C1: once an Escape key press has been handled, whatever came before it  *)
(* in the frame's event batch, the pending count target_drops - drops is   *)
(* zero.                                                                   *)
C1_EscapeStopsDropping ==
    [][HandleKeyDown(EscapeEvent, MaxTarget) => target_drops' = drops']_vars

(* C5 as stated: in every frame the needles generated are                  *)
(* min(drops_left, d) and the ceiling handed to the pacing wait is f,      *)
(* for (d, f) = get_rates(drops_left) on that frame's drops_left.          *)
C5_RatesDecidedEveryFrame ==
    (pc = "render" /\ drops_left >= 0) =>
        /\ loop_count =
               Min(drops_left, get_rates(drops_left).drops_per_frame)
        /\ target_fps = get_rates(drops_left).target_fps

(* C5 amended: get_rates decides only in a frame that starts with          *)
(* reset_rates set; there (d, f) = get_rates(drops_left) on that frame's   *)
(* drops_left.  In every other frame (d, f) are the drops_per_frame and    *)
(* target_fps the frame before ended with.  In each frame the needles      *)
(* generated are max(0, min(drops_left, d)), none when drops_left = 0,     *)
(* the ceiling handed to the pacing wait is f, and reset_rates is set      *)
(* for the next frame exactly when drops_left = 0.                         *)
C5_RatesKeptUntilReset ==
    /\ [](pc = "render" =>
            loop_count = IF drops_left = 0 THEN 0
                         ELSE Max(0, drops_per_frame))
    /\ [][(pc = "events" /\ pc' \in {"drop", "render"}) =>
            LET left == target_drops - drops
                d == IF reset_rates
                     THEN get_rates(left).drops_per_frame
                     ELSE drops_per_frame
                f == IF reset_rates
                     THEN get_rates(left).target_fps
                     ELSE target_fps
            IN  /\ drops_left' = left
                /\ target_fps' = f
                /\ drops_per_frame' = IF left # 0 THEN Min(left, d) ELSE d
                /\ reset_rates' = (left = 0)]_vars
    /\ [][(pc = "drop" \/ pc = "render") =>
            (UNCHANGED <<drops_left, target_fps, drops_per_frame>>)]_vars

(* A frame that has dropped a batch of several needles which get_rates     *)
(* would not have chosen for its drops_left.                               *)
C5_Witness ==
    /\ pc = "render"
    /\ loop_count > 1
    /\ loop_count # Min(drops_left, get_rates(drops_left).drops_per_frame)
    /\ target_fps # get_rates(drops_left).target_fps

(* C7: drops, hits and the needle list never shrink in a step that does    *)
(* not handle a Delete key press; handling Escape leaves them unchanged;   *)
(* handling Delete sets drops, hits and target_drops to 0 and empties the  *)
(* needle list.                                                            *)
C7_ResetOnlyOnDelete ==
    [][/\ (drops' < drops \/ hits' < hits \/ needles' < needles) =>
              HandleKeyDown(DeleteEvent, MaxTarget)
       /\ HandleKeyDown(EscapeEvent, MaxTarget) =>
              UNCHANGED <<drops, hits, needles>>
       /\ HandleKeyDown(DeleteEvent, MaxTarget) =>
              /\ drops' = 0
              /\ hits' = 0
              /\ target_drops' = 0
              /\ needles' = 0]_vars

(* Delete has erased the drops: a needle that crossed a column was built,  *)
(* and the counters and the list are back at zero.                         *)
C7_Witness ==
    /\ pc = "events"
    /\ hit_result.kind = "Cords"
    /\ drops = 0
    /\ hits = 0
    /\ needles = 0
    /\ target_drops = 0

(* C9: if the user stops making events, without having quit and with no   *)
(* negative count pending, every count submitted is completed: drops       *)
(* reaches target_drops and stays there.                                   *)
C9_SubmittedDropsComplete ==
    (<>[][~UserEvent]_vars /\ [](pc # "exited") /\ [](drops_left >= 0))
        => <>[](drops = target_drops)

(* C10: at the end of each frame 0 <= hits <= drops <= target_drops, and   *)
(* the drops_left handed to get_rates and to the drop loop is never        *)
(* negative.                                                               *)
C10_CountersOrdered ==
    /\ pc = "render" =>
           /\ 0 <= hits
           /\ hits <= drops
           /\ drops <= target_drops
    /\ drops_left >= 0

=============================================================================
